---------------------------- MODULE Spec2Model ----------------------------
(***************************************************************************)
(* A model of the server scaffold: the error-mapping layer of              *)
(* apps/server/src/http/error.rs, the startup sequence of main.rs and the  *)
(* router and middleware assembly of http/mod.rs.                          *)
(*                                                                         *)
(* Two specifications share the variables:                                 *)
(*   SpecError  the error layer: errors are constructed (directly, by      *)
(*              bad_request, through on_constraint) and rendered by        *)
(*              into_response;                                             *)
(*   Spec       the process: main starts up, serve builds the router and   *)
(*              binds, requests are routed concurrently.                   *)
(***************************************************************************)
EXTENDS Integers, Sequences, FiniteSets, TLC

(***************************************************************************)
(* Bounds of the model                                                     *)
(***************************************************************************)
\* longest (field, message) sequence given to bad_request
MaxPairs == 3
\* request tasks the server drives at the same time
MaxInFlight == 2

(***************************************************************************)
(* Option<T>                                                               *)
(***************************************************************************)
None == [some |-> FALSE]
Some(v) == [some |-> TRUE, v |-> v]

(***************************************************************************)
(* StatusCode (axum::http::StatusCode), kept as its number                 *)
(***************************************************************************)
OK == 200
BAD_REQUEST == 400
UNAUTHORIZED == 401
FORBIDDEN == 403
NOT_FOUND == 404
UNPROCESSABLE_ENTITY == 422
INTERNAL_SERVER_ERROR == 500

\* StatusCode::from_u16: Err(InvalidStatusCode) outside 100..=999
from_u16(n) == IF n >= 100 /\ n < 1000 THEN [ok |-> TRUE, v |-> n]
                                       ELSE [ok |-> FALSE]

(***************************************************************************)
(* The inputs: field names, messages, constraint names, causes             *)
(***************************************************************************)
Fields == {"username", "email"}
Messages == {"too short", "not alphanumeric"}
Pairs == Fields \X Messages
PairSeqs == UNION {[1..n -> Pairs] : n \in 0..MaxPairs}

ConstraintNames == {"user_username_key", "user_email_key", "user_username"}

\* sqlx::Error: the Database variant carries a DatabaseError with an optional
\* constraint name and the driver's message; the others carry no constraint
DatabaseErrors ==
    [kind : {"Database"},
     constraint : {None} \cup {Some(c) : c \in {"user_username_key", "user_email_key"}},
     text : {"duplicate key value violates unique constraint"}]
SqlxErrors ==
    DatabaseErrors \cup
    {[kind |-> "RowNotFound", text |-> "no rows returned"],
     [kind |-> "PoolTimedOut", text |-> "pool timed out at postgres://app:secret@db/app"]}
AnyhowErrors ==
    {[text |-> "config file /etc/app.toml missing"],
     [text |-> "token signing key rejected"]}

(***************************************************************************)
(* enum Error                                                              *)
(***************************************************************************)
NoError == [tag |-> "NoError"]
UnitErrors == {[tag |-> t] : t \in {"NotFound", "UnprocessableEntity", "Forbidden", "Unauthorized"}}
Sqlx(e) == [tag |-> "Sqlx", cause |-> e]
Anyhow(e) == [tag |-> "Anyhow", cause |-> e]
BadRequest(m) == [tag |-> "BadRequest", errors |-> m]

\* HashMap::entry(key).or_insert_with(Vec::new).push(val)
EntryPushOverwrite(map, key, val) ==
    [k \in DOMAIN map \cup {key} |-> IF k = key THEN <<val>> ELSE map[k]]
EntryPush(map, key, val) ==
    [k \in DOMAIN map \cup {key} |->
        IF k = key
        THEN (IF key \in DOMAIN map THEN Append(map[key], val) ELSE <<val>>)
        ELSE map[k]]

\* the for loop of Error::bad_request over the first n pairs
RECURSIVE FoldPairs(_, _)
FoldPairs(errors, n) ==
    IF n = 0 THEN << >>
    ELSE EntryPush(FoldPairs(errors, n - 1), errors[n][1], errors[n][2])

bad_request(errors) == BadRequest(FoldPairs(errors, Len(errors)))

status_codeFallThrough(self) ==
    CASE self.tag = "NotFound" -> NOT_FOUND
      [] self.tag = "Forbidden" -> FORBIDDEN
      [] self.tag = "Unauthorized" -> UNAUTHORIZED
      [] self.tag = "BadRequest" -> BAD_REQUEST
      [] OTHER -> INTERNAL_SERVER_ERROR
status_code(self) ==
    CASE self.tag = "NotFound" -> NOT_FOUND
      [] self.tag = "UnprocessableEntity" -> UNPROCESSABLE_ENTITY
      [] self.tag = "Forbidden" -> FORBIDDEN
      [] self.tag = "Unauthorized" -> UNAUTHORIZED
      [] self.tag = "BadRequest" -> BAD_REQUEST
      [] OTHER -> INTERNAL_SERVER_ERROR

title(self) ==
    CASE self.tag = "Unauthorized" -> "Unauthorized"
      [] self.tag = "BadRequest" -> "Bad Request"
      [] self.tag = "UnprocessableEntity" -> "Unprocessable Entity"
      [] self.tag = "Forbidden" -> "Forbidden"
      [] self.tag = "NotFound" -> "Not Found"
      [] OTHER -> "Internal Server Error"

\* Display for Error, from the #[error("...")] attributes
to_stringWithSource(self) ==
    CASE self.tag = "NotFound" -> "request path not found"
      [] self.tag = "UnprocessableEntity" -> ""
      [] self.tag = "BadRequest" -> "error in the request body"
      [] self.tag = "Forbidden" -> "user may not have access rights to the content"
      [] self.tag = "Unauthorized" -> "authorization required"
      [] self.tag = "Sqlx" -> self.cause.text
      [] self.tag = "Anyhow" -> self.cause.text
to_string(self) ==
    CASE self.tag = "NotFound" -> "request path not found"
      [] self.tag = "UnprocessableEntity" -> ""
      [] self.tag = "BadRequest" -> "error in the request body"
      [] self.tag = "Forbidden" -> "user may not have access rights to the content"
      [] self.tag = "Unauthorized" -> "authorization required"
      [] self.tag = "Sqlx" -> "an error occurred with the database"
      [] self.tag = "Anyhow" -> "an internal server error has occurred"

\* impl From<Error> for ErrorBody; the u16 field keeps its width
ErrorBodyFromStatusClass(error) ==
    [title |-> title(error),
     message |-> to_string(error),
     status |-> (status_code(error) \div 100) % 65536]
ErrorBodyFrom(error) ==
    [title |-> title(error),
     message |-> to_string(error),
     status |-> status_code(error) % 65536]

\* #[derive(Serialize)] for ErrorBody under Json: one member per struct field
Json(e) == [k \in {"title", "status", "message"} |->
              CASE k = "title" -> [str |-> e.title]
                [] k = "status" -> [num |-> e.status]
                [] k = "message" -> [str |-> e.message]]

Panic == [panic |-> TRUE]

\* the header match of into_response
HeaderMapForAnyClientAuthError(status) ==
    IF status \in {UNAUTHORIZED, FORBIDDEN}
    THEN {<<"www-authenticate", "Token">>}
    ELSE {}
HeaderMapFor(status) ==
    IF status = UNAUTHORIZED THEN {<<"www-authenticate", "Token">>} ELSE {}

\* impl IntoResponse for Error: (status, header, Json(e)).into_response();
\* unwrap of an Err is a panic
into_response(self) ==
    LET e == ErrorBodyFrom(self)
        status == from_u16(e.status)
    IN  IF ~status.ok THEN Panic
        ELSE [panic |-> FALSE,
              status |-> status.v,
              headers |-> {<<"content-type", "application/json">>} \cup HeaderMapFor(status.v),
              body |-> [json |-> Json(e)]]


(***************************************************************************)
(* ResultExt::on_constraint                                                *)
(***************************************************************************)
Ok(v) == [ok |-> TRUE, val |-> v]
Err(e) == [ok |-> FALSE, err |-> e]

\* E: Into<Error>: the #[from] conversions, and Error itself
Into(e) ==
    CASE e.ty = "sqlx::Error" -> Sqlx(e.e)
      [] e.ty = "anyhow::Error" -> Anyhow(e.e)
      [] e.ty = "Error" -> e.e

\* the closures handed to on_constraint
Closures == {"unprocessable_entity", "username_taken", "rewrap"}
Apply(f, dbe) ==
    CASE f = "unprocessable_entity" -> [tag |-> "UnprocessableEntity"]
      [] f = "username_taken" -> bad_request(<<<<"username", "already taken">>>>)
      [] f = "rewrap" -> Sqlx(dbe)

\* the match guard: Error::Sqlx(sqlx::Error::Database(dbe)) if dbe.constraint() == Some(name)
ConstraintMatchesAnyName(e, name) ==
    /\ e.tag = "Sqlx"
    /\ e.cause.kind = "Database"
    /\ e.cause.constraint.some
ConstraintMatches(e, name) ==
    /\ e.tag = "Sqlx"
    /\ e.cause.kind = "Database"
    /\ e.cause.constraint = Some(name)

\* returns the Result and the arguments map_err was called with
on_constraint(self, name, map_err) ==
    IF self.ok THEN [ret |-> self, calls |-> << >>]
    ELSE LET e == Into(self.err)
         IN  IF ConstraintMatches(e, name)
             THEN [ret |-> Err(Apply(map_err, e.cause)), calls |-> <<e.cause>>]
             ELSE [ret |-> Err(e), calls |-> << >>]

\* the results on_constraint is applied to
ErrorInputs ==
    {[ty |-> "sqlx::Error", e |-> c] : c \in SqlxErrors} \cup
    {[ty |-> "anyhow::Error", e |-> c] : c \in AnyhowErrors} \cup
    {[ty |-> "Error", e |-> x] : x \in UnitErrors \cup {Sqlx(c) : c \in DatabaseErrors}}
ResultInputs == {Ok("user_id")} \cup {Err(e) : e \in ErrorInputs}

(***************************************************************************)
(* State                                                                   *)
(***************************************************************************)
VARIABLES
    error,      \* the Error a handler holds, NoError when it holds none
    call,       \* the last operation of the error layer, its arguments and result
    pc,         \* main: "start", "parsed", "connected", "migrated", "serving", "exited"
    exit,       \* the process's exit: [code, failed] once pc = "exited"
    config,     \* Option<Config>
    db,         \* Option<PgPool>, with whether the migrations have run
    listener,   \* Option<SocketAddr>: the bound listener
    app,        \* Option<Router>: the router serve built, with its state
    buckets,    \* the governor's cells left, by source
    reqs        \* the request tasks in flight

errVars == <<error, call>>
srvVars == <<pc, exit, config, db, listener, app, buckets, reqs>>
vars == <<error, call, pc, exit, config, db, listener, app, buckets, reqs>>

(***************************************************************************)
(* The error layer                                                         *)
(***************************************************************************)
\* a handler fails with a unit variant, or `?` converts a sqlx or anyhow error
Raise(e) ==
    /\ error = NoError
    /\ error' = e
    /\ call' = [op |-> "raise"]

CallBadRequest(errors) ==
    /\ error = NoError
    /\ LET ret == bad_request(errors)
       IN  /\ error' = ret
           /\ call' = [op |-> "bad_request", errors |-> errors, ret |-> ret]

\* result.on_constraint(name, f)?
CallOnConstraint(self, name, f) ==
    /\ error = NoError
    /\ LET out == on_constraint(self, name, f)
       IN  /\ error' = IF out.ret.ok THEN NoError ELSE out.ret.err
           /\ call' = [op |-> "on_constraint", self |-> self, name |-> name, f |-> f,
                       ret |-> out.ret, calls |-> out.calls]

\* the handler returns Err(error); axum renders it
CallIntoResponse ==
    /\ error # NoError
    /\ call' = [op |-> "into_response", self |-> error, ret |-> into_response(error)]
    /\ error' = NoError


(***************************************************************************)
(* The router of http/mod.rs                                               *)
(***************************************************************************)
Sources == {"10.0.0.1", "10.0.0.2"}
Methods == {"GET", "POST"}
Paths == {"/", "/does-not-exist"}
Configs == {[database_url |-> "postgres://db/app", port |-> 3000, address |-> "0.0.0.0"]}

\* GovernorConfigBuilder::default().per_second(2).burst_size(5)
per_second == 2
burst_size == 5

\* ServiceBuilder applies its layers outermost first
ServiceLayers == <<"RequestId", "Trace", "HandleError", "Governor">>

\* Router::new(): no routes, the default fallback (404, empty body)
RouterNew ==
    [routes |-> << >>,
     fallback |-> [handler |-> "default_fallback", layers |-> << >>],
     state |-> None]
\* axum::routing::get(handler)
get(handler) == [methods |-> ("GET" :> handler), layers |-> << >>]
\* Router::route(path, method_router)
route(r, path, method_router) ==
    [r EXCEPT !.routes = [p \in DOMAIN r.routes \cup {path} |->
                            IF p = path THEN method_router ELSE r.routes[p]]]
\* Router::merge(other): other's routes are added; a default fallback yields
merge(r, other) ==
    [r EXCEPT !.routes = [p \in DOMAIN r.routes \cup DOMAIN other.routes |->
                            IF p \in DOMAIN other.routes THEN other.routes[p]
                                                         ELSE r.routes[p]],
              !.fallback = IF other.fallback.handler # "default_fallback"
                           THEN other.fallback ELSE r.fallback]
\* Router::layer(l): wraps the routes and the fallback the router has now
layer(r, l) ==
    [r EXCEPT !.routes = [p \in DOMAIN r.routes |->
                            [r.routes[p] EXCEPT !.layers = l \o @]],
              !.fallback = [r.fallback EXCEPT !.layers = l \o @]]
\* Router::fallback(handler): replaces the fallback by the bare handler
fallback(r, handler) ==
    [r EXCEPT !.fallback = [handler |-> handler, layers |-> << >>]]
\* Router::with_state(state)
with_state(r, state) == [r EXCEPT !.state = Some(state)]

\* routes::health_check::router() and routes::router()
health_check_router == route(RouterNew, "/", get("health"))
routes_router == merge(RouterNew, health_check_router)

ApiContext(c, pool) == [config |-> c, db |-> pool]

\* the router serve builds
serveAppWithoutFallback(c, pool) ==
    with_state(layer(merge(RouterNew, routes_router), ServiceLayers),
               ApiContext(c, pool))
serveApp(c, pool) ==
    with_state(
        fallback(layer(merge(RouterNew, routes_router), ServiceLayers),
                 "not_found_handler"),
        ApiContext(c, pool))

\* the listener's address: SocketAddr::from(([127, 0, 0, 1], 8080))
addr == [ip |-> <<127, 0, 0, 1>>, port |-> 8080]

\* async fn health
healthNoContent == [panic |-> FALSE, status |-> 204, headers |-> {}, body |-> [text |-> ""]]
health ==
    [panic |-> FALSE,
     status |-> OK,
     headers |-> {<<"content-type", "text/plain; charset=utf-8">>},
     body |-> [text |-> "ok"]]
\* async fn not_found_handler
not_found_handler == into_response([tag |-> "NotFound"])
\* the default fallback of a Router
default_fallback ==
    [panic |-> FALSE, status |-> NOT_FOUND, headers |-> {}, body |-> [text |-> ""]]
\* a MethodRouter called with a method it has no handler for
method_not_allowed ==
    [panic |-> FALSE, status |-> 405,
     headers |-> {<<"allow", "GET,HEAD">>}, body |-> [text |-> ""]]
\* HandleErrorLayer with display_error, on the governor's rejection
too_many_requests ==
    [panic |-> FALSE, status |-> 429,
     headers |-> {}, body |-> [text |-> "Too Many Requests!"]]

Idle == [stage |-> "idle"]

(***************************************************************************)
(* Initial states                                                          *)
(***************************************************************************)
InitError ==
    /\ error = NoError
    /\ call = [op |-> "none"]
InitServer ==
    /\ pc = "start"
    /\ exit = None
    /\ config = None
    /\ db = None
    /\ listener = None
    /\ app = None
    /\ buckets = [s \in Sources |-> burst_size]
    /\ reqs = [i \in 1..MaxInFlight |-> Idle]
Init == InitError /\ InitServer

NextError ==
    \/ \E e \in UnitErrors \cup {Sqlx(c) : c \in SqlxErrors} \cup {Anyhow(c) : c \in AnyhowErrors} :
          Raise(e) /\ UNCHANGED srvVars
    \/ \E errors \in PairSeqs : CallBadRequest(errors) /\ UNCHANGED srvVars
    \/ \E self \in ResultInputs, name \in ConstraintNames, f \in Closures :
          CallOnConstraint(self, name, f) /\ UNCHANGED srvVars
    \/ CallIntoResponse /\ UNCHANGED srvVars

SpecError == Init /\ [][NextError]_vars

(***************************************************************************)
(* main: the startup sequence                                              *)
(***************************************************************************)
Exited(code, failed) ==
    /\ pc' = "exited"
    /\ exit' = Some([code |-> code, failed |-> failed])

\* Config::parse(): clap exits the process on an error (code 2) and on --help
\* (code 0)
ConfigParse ==
    /\ pc = "start"
    /\ \/ \E c \in Configs : config' = Some(c) /\ pc' = "parsed" /\ UNCHANGED exit
       \/ Exited(2, "config") /\ UNCHANGED config
       \/ Exited(0, "none") /\ UNCHANGED config
    /\ UNCHANGED <<db, listener, app, buckets, reqs>>

\* PgPoolOptions::new().max_connections(10).connect(&config.database_url).await?
PoolConnect ==
    /\ pc = "parsed"
    /\ \/ /\ db' = Some([url |-> config.v.database_url, max_connections |-> 10,
                         migrated |-> FALSE])
          /\ pc' = "connected"
          /\ UNCHANGED exit
       \/ Exited(1, "pool") /\ UNCHANGED db
    /\ UNCHANGED <<config, listener, app, buckets, reqs>>

\* sqlx::migrate!().run(&db).await?
MigrateRunIgnoringFailure ==
    /\ pc = "connected"
    /\ \/ /\ db' = Some([db.v EXCEPT !.migrated = TRUE])
          /\ pc' = "migrated"
          /\ UNCHANGED exit
       \/ /\ pc' = "migrated"
          /\ exit' = Some([code |-> 1, failed |-> "migration"])
          /\ UNCHANGED db
    /\ UNCHANGED <<config, listener, app, buckets, reqs>>
MigrateRun ==
    /\ pc = "connected"
    /\ \/ /\ db' = Some([db.v EXCEPT !.migrated = TRUE])
          /\ pc' = "migrated"
          /\ UNCHANGED exit
       \/ Exited(1, "migration") /\ UNCHANGED db
    /\ UNCHANGED <<config, listener, app, buckets, reqs>>

\* http::serve(config, db): builds the router, then binds; Server::bind
\* panics when the address cannot be bound
Serve ==
    /\ pc = "migrated"
    /\ \/ /\ app' = Some(serveApp(config.v, db.v))
          /\ listener' = Some(addr)
          /\ pc' = "serving"
          /\ UNCHANGED exit
       \/ Exited(101, "bind") /\ UNCHANGED <<app, listener>>
    /\ UNCHANGED <<config, db, buckets, reqs>>

\* the server future ends with an error: "error running HTTP server"
ServeError ==
    /\ pc = "serving"
    /\ Exited(1, "server")
    /\ listener' = None
    /\ reqs' = [i \in DOMAIN reqs |-> Idle]
    /\ UNCHANGED <<config, db, app, buckets>>

(***************************************************************************)
(* Requests                                                                *)
(***************************************************************************)
\* the listener accepts a request and spawns its task
Accept(i, source, method, path) ==
    /\ pc = "serving"
    /\ listener.some
    /\ reqs[i].stage = "idle"
    /\ reqs' = [reqs EXCEPT ![i] =
                  [stage |-> "accepted", source |-> source, method |-> method,
                   path |-> path, endpoint |-> "none", limiter |-> "none",
                   handler |-> "none", resp |-> None]]
    /\ UNCHANGED <<pc, exit, config, db, listener, app, buckets>>

\* the endpoint Router::call picks for a path
Endpoint(r, path) ==
    IF path \in DOMAIN r.routes THEN "route" ELSE "fallback"
LayersOf(r, path) ==
    IF path \in DOMAIN r.routes THEN r.routes[path].layers ELSE r.fallback.layers
Governed(l) == \E k \in 1..Len(l) : l[k] = "Governor"

\* Router::call: the path picks the endpoint, the request goes through the
\* endpoint's layers; the governor takes a cell of the source's bucket or
\* rejects, and HandleErrorLayer answers the rejection
RouterCall(i) ==
    /\ pc = "serving"
    /\ reqs[i].stage = "accepted"
    /\ LET r == reqs[i]
           e == Endpoint(app.v, r.path)
       IN  IF ~Governed(LayersOf(app.v, r.path))
           THEN /\ reqs' = [reqs EXCEPT ![i] = [r EXCEPT !.stage = "handler", !.endpoint = e]]
                /\ UNCHANGED buckets
           ELSE IF buckets[r.source] > 0
           THEN /\ buckets' = [buckets EXCEPT ![r.source] = @ - 1]
                /\ reqs' = [reqs EXCEPT ![i] = [r EXCEPT !.stage = "handler", !.endpoint = e,
                                                         !.limiter = "admitted"]]
           ELSE /\ reqs' = [reqs EXCEPT ![i] = [r EXCEPT !.stage = "done", !.endpoint = e,
                                                         !.limiter = "rejected",
                                                         !.resp = Some(too_many_requests)]]
                /\ UNCHANGED buckets
    /\ UNCHANGED <<pc, exit, config, db, listener, app>>

\* the response a handler returns
HandlerResponse(handler) ==
    CASE handler = "health" -> health
      [] handler = "not_found_handler" -> not_found_handler
      [] handler = "default_fallback" -> default_fallback

\* the endpoint runs: a route's MethodRouter calls the handler of the method
\* or answers 405; the fallback calls its handler
Handle(i) ==
    /\ pc = "serving"
    /\ reqs[i].stage = "handler"
    /\ LET r == reqs[i]
           h == IF r.endpoint = "fallback" THEN app.v.fallback.handler
                ELSE IF r.method \in DOMAIN app.v.routes[r.path].methods
                THEN app.v.routes[r.path].methods[r.method]
                ELSE "none"
       IN  reqs' = [reqs EXCEPT ![i] =
                      [r EXCEPT !.stage = "done", !.handler = h,
                                !.resp = Some(IF h = "none" THEN method_not_allowed
                                                            ELSE HandlerResponse(h))]]
    /\ UNCHANGED <<pc, exit, config, db, listener, app, buckets>>

\* the response is written and the task ends
Respond(i) ==
    /\ pc = "serving"
    /\ reqs[i].stage = "done"
    /\ reqs' = [reqs EXCEPT ![i] = Idle]
    /\ UNCHANGED <<pc, exit, config, db, listener, app, buckets>>

\* one replenish period of the governor passes for a source
Replenish(source) ==
    /\ pc = "serving"
    /\ buckets[source] < burst_size
    /\ buckets' = [buckets EXCEPT ![source] = @ + 1]
    /\ UNCHANGED <<pc, exit, config, db, listener, app, reqs>>

Next ==
    \/ ConfigParse /\ UNCHANGED errVars
    \/ PoolConnect /\ UNCHANGED errVars
    \/ MigrateRun /\ UNCHANGED errVars
    \/ Serve /\ UNCHANGED errVars
    \/ ServeError /\ UNCHANGED errVars
    \/ \E i \in 1..MaxInFlight, source \in Sources, method \in Methods, path \in Paths :
          Accept(i, source, method, path) /\ UNCHANGED errVars
    \/ \E i \in 1..MaxInFlight : RouterCall(i) /\ UNCHANGED errVars
    \/ \E i \in 1..MaxInFlight : Handle(i) /\ UNCHANGED errVars
    \/ \E i \in 1..MaxInFlight : Respond(i) /\ UNCHANGED errVars
    \/ \E source \in Sources : Replenish(source) /\ UNCHANGED errVars

Spec == Init /\ [][Next]_vars

(***************************************************************************)
(* The error layer's contract                                              *)
(***************************************************************************)
Rendered == call.op = "into_response"

\* the status column of the error taxonomy
DocumentedStatus(tag) ==
    CASE tag = "NotFound" -> 404
      [] tag = "UnprocessableEntity" -> 422
      [] tag = "BadRequest" -> 400
      [] tag = "Forbidden" -> 403
      [] tag = "Unauthorized" -> 401
      [] tag = "Sqlx" -> 500
      [] tag = "Anyhow" -> 500

\* C1: every variant renders to a JSON body with exactly the fields title,
\* status and message; status is the documented code of the variant, and the
\* response's HTTP status is that code.
C1_StatusAndBody ==
    Rendered =>
        /\ ~call.ret.panic
        /\ DOMAIN call.ret.body = {"json"}
        /\ DOMAIN call.ret.body.json = {"title", "status", "message"}
        /\ call.ret.body.json.status = [num |-> DocumentedStatus(call.self.tag)]
        /\ call.ret.status = DocumentedStatus(call.self.tag)
C1_Witness ==
    /\ Rendered
    /\ call.self.tag = "UnprocessableEntity"
    /\ call.ret.status = 422

\* C2: the response carries WWW-Authenticate: Token exactly when the error is
\* Unauthorized; every other variant has no WWW-Authenticate header at all.
C2_AuthenticateHeader ==
    Rendered =>
        /\ ~call.ret.panic
        /\ (<<"www-authenticate", "Token">> \in call.ret.headers) <=> (call.self.tag = "Unauthorized")
        /\ call.self.tag # "Unauthorized" =>
              \A h \in call.ret.headers : h[1] # "www-authenticate"
C2_Witness ==
    /\ Rendered
    /\ call.self.tag = "Unauthorized"
    /\ <<"www-authenticate", "Token">> \in call.ret.headers

\* C3: on_constraint(name, f): (1) a database error whose constraint is name
\* becomes Err(f(that database error)); (2) a database error with another or
\* no constraint, (3) a non-database error and (4) an Ok value are returned
\* unchanged, and f is not called.
IsDatabaseError(e) == e.tag = "Sqlx" /\ e.cause.kind = "Database"
C3_OnConstraint ==
    call.op = "on_constraint" =>
        IF call.self.ok
        THEN call.ret = call.self /\ call.calls = << >>
        ELSE LET e == Into(call.self.err)
             IN  IF IsDatabaseError(e) /\ e.cause.constraint = Some(call.name)
                 THEN /\ call.ret = Err(Apply(call.f, e.cause))
                      /\ call.calls = <<e.cause>>
                 ELSE /\ call.ret = Err(e)
                      /\ call.calls = << >>
C3_Witness ==
    /\ call.op = "on_constraint"
    /\ call.name = "user_username_key"
    /\ call.f = "username_taken"
    /\ ~call.self.ok
    /\ Len(call.calls) = 1
    /\ call.ret.err.tag = "BadRequest"

\* C4: bad_request returns a BadRequest whose map has exactly the distinct
\* fields of the input as keys, each mapped to all its messages in input order.
MessagesFor(errors, field) ==
    LET own == SelectSeq(errors, LAMBDA p : p[1] = field)
    IN  [i \in 1..Len(own) |-> own[i][2]]
C4_BadRequestFold ==
    call.op = "bad_request" =>
        /\ call.ret.tag = "BadRequest"
        /\ DOMAIN call.ret.errors = {call.errors[i][1] : i \in 1..Len(call.errors)}
        /\ \A field \in DOMAIN call.ret.errors :
              call.ret.errors[field] = MessagesFor(call.errors, field)
C4_Witness ==
    /\ call.op = "bad_request"
    /\ call.errors = <<<<"username", "too short">>, <<"username", "not alphanumeric">>>>
    /\ call.ret.errors["username"] = <<"too short", "not alphanumeric">>

\* C5: the response to a Sqlx or an Anyhow error is the same whatever the
\* cause: title "Internal Server Error", status 500, the variant's fixed
\* message; the cause's text is in no field.
InternalResponse(message) ==
    [panic |-> FALSE,
     status |-> 500,
     headers |-> {<<"content-type", "application/json">>},
     body |-> [json |-> [title |-> [str |-> "Internal Server Error"],
                         status |-> [num |-> 500],
                         message |-> [str |-> message]]]]
C5_CauseNotDisclosed ==
    /\ (Rendered /\ call.self.tag = "Sqlx") =>
          /\ call.ret = InternalResponse("an error occurred with the database")
          /\ [str |-> call.self.cause.text] \notin
                {call.ret.body.json.title, call.ret.body.json.message}
    /\ (Rendered /\ call.self.tag = "Anyhow") =>
          /\ call.ret = InternalResponse("an internal server error has occurred")
          /\ [str |-> call.self.cause.text] \notin
                {call.ret.body.json.title, call.ret.body.json.message}
C5_Witness ==
    /\ Rendered
    /\ call.self.tag = "Sqlx"
    /\ call.self.cause.kind = "PoolTimedOut"
    /\ call.ret.status = 500

\* C10: into_response returns a response for every Error and never panics:
\* the status stored in ErrorBody is a valid status code, so the unwrap of
\* StatusCode::from_u16 succeeds.
C10_NeverPanics ==
    Rendered =>
        /\ ~call.ret.panic
        /\ call.ret.body.json.status.num \in 100..999
        /\ call.ret.status = call.ret.body.json.status.num
C10_Witness ==
    /\ Rendered
    /\ call.self.tag = "BadRequest"
    /\ DOMAIN call.self.errors = Fields
    /\ ~call.ret.panic

(***************************************************************************)
(* The process's contract                                                  *)
(***************************************************************************)
InFlight(i) == reqs[i].stage # "idle"
Done(i) == reqs[i].stage = "done"

\* C6: startup is sequential: configuration, pool, migrations, listener. The
\* listener is bound only after the three earlier steps succeeded; when one
\* of them fails the process has exited with an error, no listener is bound
\* and no request is in service.
C6_StartupOrder ==
    /\ pc \in {"parsed", "connected", "migrated", "serving"} => config.some
    /\ pc \in {"connected", "migrated", "serving"} => db.some
    /\ pc \in {"migrated", "serving"} => db.v.migrated
    /\ (listener.some \/ \E i \in DOMAIN reqs : InFlight(i)) =>
          /\ pc = "serving"
          /\ ~exit.some
          /\ config.some /\ db.some /\ db.v.migrated
    /\ (exit.some /\ exit.v.failed \in {"config", "pool", "migration"}) =>
          /\ pc = "exited"
          /\ exit.v.code # 0
          /\ ~listener.some
          /\ ~app.some
          /\ \A i \in DOMAIN reqs : ~InFlight(i)
C6_Witness ==
    /\ pc = "exited"
    /\ exit.v.failed = "pool"
    /\ config.some
    /\ ~listener.some

\* C7: the rate limiter runs before the router for every inbound request: a
\* request that a handler answered, the health handler or the not-found
\* fallback handler, was admitted by the limiter first.
C7_LimiterBeforeEveryHandler ==
    \A i \in DOMAIN reqs :
        (Done(i) /\ reqs[i].handler # "none") => reqs[i].limiter = "admitted"

\* C8: an admitted GET on the root path is answered 200 with body ok, whatever
\* the other request tasks do, and the shared context stays the one serve
\* built from the configuration and the pool.
C8_HealthUnderConcurrency ==
    /\ \A i \in DOMAIN reqs :
          (Done(i) /\ reqs[i].method = "GET" /\ reqs[i].path = "/"
                   /\ reqs[i].limiter = "admitted") =>
              /\ reqs[i].handler = "health"
              /\ reqs[i].resp.v.status = 200
              /\ reqs[i].resp.v.body = [text |-> "ok"]
    /\ pc = "serving" =>
          \E c \in Configs :
              /\ config = Some(c)
              /\ db = Some([url |-> c.database_url, max_connections |-> 10, migrated |-> TRUE])
              /\ app.v.state = Some([config |-> c, db |-> db.v])
C8_Witness ==
    \E i, j \in DOMAIN reqs :
        /\ i # j
        /\ Done(i) /\ Done(j)
        /\ reqs[i].path = "/" /\ reqs[j].path = "/"
        /\ reqs[i].method = "GET" /\ reqs[j].method = "GET"
        /\ reqs[i].source = reqs[j].source
        /\ reqs[i].resp.v.status = 200 /\ reqs[j].resp.v.status = 200

\* C9: a request to a path that matches no route is answered by the rendered
\* NotFound error: status 404, title "Not Found", message "request path not
\* found".
C9_UnmatchedPath ==
    \A i \in DOMAIN reqs :
        (Done(i) /\ reqs[i].path # "/") =>
            reqs[i].resp =
                Some([panic |-> FALSE,
                      status |-> 404,
                      headers |-> {<<"content-type", "application/json">>},
                      body |-> [json |-> [title |-> [str |-> "Not Found"],
                                          status |-> [num |-> 404],
                                          message |-> [str |-> "request path not found"]]]])
C9_Witness ==
    \E i \in DOMAIN reqs :
        /\ Done(i)
        /\ reqs[i].path = "/does-not-exist"
        /\ reqs[i].method = "POST"
        /\ buckets[reqs[i].source] = 0
        /\ reqs[i].resp.v.status = 404

=============================================================================
